---- MODULE Spec2Model ----
(***************************************************************************)
(* receipt_analyzer: the image size-reduction loop (resize_image), the     *)
(* extraction pipeline (analyze) and the HTTP handler (analyze_receipt),   *)
(* one instance per in-flight call.                                        *)
(*                                                                         *)
(* Images are carried as (decodable, byte length, width, height); the      *)
(* JPEG encoder and the remote model are the environment: the encoder's    *)
(* output length is chosen at every iteration, the remote reply of a call  *)
(* is fixed when the call starts.  Confidence values are in tenths.        *)
(***************************************************************************)
EXTENDS Integers, Sequences, FiniteSets, TLC

\* ------------------------------------------------------------------ bounds
NumCalls == 2
MaxDim == 150

Calls == 1..NumCalls

\* ------------------------------------------------------- program constants
MaxSizeBytes == 1024 * 1024
FloorPx == 100
F32_0_9_MANT == 15099494
F32_MANT_BITS == 24
SplitBits == F32_MANT_BITS \div 2

RECURSIVE Pow2(_)
Pow2(k) == IF k <= 0 THEN 1 ELSE 2 * Pow2(k - 1)

RECURSIVE BitLen(_)
BitLen(n) == IF n <= 0 THEN 0 ELSE 1 + BitLen(n \div 2)

\* Round-to-nearest, ties-to-even, of num / 2^e.
RoundHalfEven(q, rem, e) ==
    IF 2 * rem > Pow2(e) \/ (2 * rem = Pow2(e) /\ q % 2 = 1) THEN q + 1 ELSE q

\* (w as f32 * 0.9) as u32, for 0 <= w < 4096.  w is exact in f32; 0.9f32 is
\* F32_0_9_MANT / 2^24; the exact product w * F32_0_9_MANT is formed in two
\* 12-bit halves, rounded to a 24-bit significand (ties to even), and
\* truncated toward zero.
F32MulTrunc(w) ==
    IF w = 0 THEN 0
    ELSE LET cHi  == F32_0_9_MANT \div Pow2(SplitBits)
             cLo  == F32_0_9_MANT % Pow2(SplitBits)
             lo   == w * cLo
             H    == w * cHi + lo \div Pow2(SplitBits)
             r0   == lo % Pow2(SplitBits)
             e    == BitLen(H) - (F32_MANT_BITS - SplitBits)
             q    == H * Pow2(SplitBits - e) + r0 \div Pow2(e)
             rem  == r0 % Pow2(e)
             sig  == RoundHalfEven(q, rem, e)
         IN  sig \div Pow2(F32_MANT_BITS - e)

\* The values of F32MulTrunc over the dimensions an image can have.
ShrinkTable == [w \in 0..MaxDim |-> F32MulTrunc(w)]

\* width = (width as f32 * 0.9) as u32
ShrinkDim_Round(w) == (9 * w + 5) \div 10
ShrinkDim_NoShrink(w) == w
ShrinkDim(w) == ShrinkTable[w]

\* while current_size > max_size_bytes && width > 100 && height > 100
LoopGuard_Or(cs, w, h) == cs > MaxSizeBytes /\ (w > FloorPx \/ h > FloorPx)
LoopGuard(cs, w, h) == cs > MaxSizeBytes /\ w > FloorPx /\ h > FloorPx

\* if current_size <= max_size_bytes { return Ok(..) }
Fits_OffByOne(size) == size <= MaxSizeBytes + 1
Fits(size) == size <= MaxSizeBytes

\* ------------------------------------------------------------ JSON values
\* serde_json::Value, as far as the decoder looks at it: a type tag with the
\* string, the number (tenths) or the array elements it carries.
JStr(s) == [t |-> "string", s |-> s, n |-> 0, a |-> <<>>]
JNum(n) == [t |-> "number", s |-> "", n |-> n, a |-> <<>>]
JNull == [t |-> "null", s |-> "", n |-> 0, a |-> <<>>]
JArr(a) == [t |-> "array", s |-> "", n |-> 0, a |-> a]

Without(obj, k) == [x \in DOMAIN obj \ {k} |-> obj[x]]
With(obj, k, v) == [x \in DOMAIN obj \cup {k} |-> IF x = k THEN v ELSE obj[x]]

\* struct Receipt / struct ReceiptItem: field names in declaration order, the
\* fields a reply must carry (none is Option or #[serde(default)]).
FieldOrder == <<"brand", "store", "date", "items", "total", "confidence">>
ReceiptFields == {FieldOrder[i] : i \in 1..Len(FieldOrder)}
ItemFields == {"name", "price"}
RequiredFields_ConfidenceDefault == ReceiptFields \ {"confidence"}
RequiredFields == ReceiptFields

\* f64 accepts any JSON number, in range or not.
ConfidenceAccepted_RangeChecked(v) == v.t = "number" /\ v.n >= 0 /\ v.n <= 10
ConfidenceAccepted(v) == v.t = "number"

ItemOk(o) ==
    /\ ItemFields \subseteq DOMAIN o
    /\ \A f \in ItemFields : o[f].t = "string"

FieldOk(f, v) ==
    CASE f = "items" -> v.t = "array" /\ \A i \in 1..Len(v.a) : ItemOk(v.a[i])
      [] f = "confidence" -> ConfidenceAccepted(v)
      [] OTHER -> v.t = "string"

DecodeItem(o) == [name |-> o.name.s, price |-> o.price.s]

FieldValue(f, v) ==
    CASE f = "items" -> [t |-> "items", s |-> "", n |-> 0,
                         items |-> [i \in 1..Len(v.a) |-> DecodeItem(v.a[i])]]
      [] f = "confidence" -> [t |-> "f64", s |-> "", n |-> v.n, items |-> <<>>]
      [] OTHER -> [t |-> "String", s |-> v.s, n |-> 0, items |-> <<>>]

FieldDefault(f) ==
    CASE f = "items" -> [t |-> "items", s |-> "", n |-> 0, items |-> <<>>]
      [] f = "confidence" -> [t |-> "f64", s |-> "", n |-> 0, items |-> <<>>]
      [] OTHER -> [t |-> "String", s |-> "", n |-> 0, items |-> <<>>]

\* A reply text is not JSON ("invalid"), a JSON object, a JSON array or
\* another JSON value ("scalar").  A derived struct decodes from an object by
\* key and from an array by position.
Lookup(text, f) ==
    CASE text.kind = "object" ->
            IF f \in DOMAIN text.obj THEN <<text.obj[f]>> ELSE <<>>
      [] text.kind = "array" ->
            LET i == CHOOSE j \in 1..Len(FieldOrder) : FieldOrder[j] = f
            IN  IF i <= Len(text.arr) THEN <<text.arr[i]>> ELSE <<>>
      [] OTHER -> <<>>

\* serde_json::from_str::<Receipt>(analysis_result)
DecodeReceipt(text) ==
    IF /\ text.kind \in {"object", "array"}
       /\ \A f \in RequiredFields : Lookup(text, f) # <<>>
       /\ \A f \in ReceiptFields :
             Lookup(text, f) # <<>> => FieldOk(f, Lookup(text, f)[1])
    THEN [ok |-> TRUE,
          receipt |-> <<[f \in ReceiptFields |->
                          IF Lookup(text, f) # <<>>
                          THEN FieldValue(f, Lookup(text, f)[1])
                          ELSE FieldDefault(f)]>>]
    ELSE [ok |-> FALSE, receipt |-> <<>>]

\* lines 134-142: the envelope is parsed, content[0].text extracted as a
\* string, and the text decoded into a Receipt.
DecodeOutcome(body) ==
    IF ~body.body_json THEN [status |-> "err", receipt |-> <<>>, err |-> "envelope_json"]
    ELSE IF ~body.has_text THEN [status |-> "err", receipt |-> <<>>, err |-> "no_text"]
    ELSE IF DecodeReceipt(body.text).ok
         THEN [status |-> "ok", receipt |-> DecodeReceipt(body.text).receipt, err |-> ""]
         ELSE [status |-> "err", receipt |-> <<>>, err |-> "receipt_json"]

\* base64 of n bytes, padded.
Base64Len(n) == 4 * ((n + 2) \div 3)

\* ------------------------------------------------------------------ inputs
\* Request images: not decodable, or decodable with a byte length and pixel
\* dimensions around the floor.
StartDims == {FloorPx - 1, FloorPx, FloorPx + 1, 110, 111, 112, 120, MaxDim}
InputLens == {MaxSizeBytes - 1, MaxSizeBytes, MaxSizeBytes + 1}
Undecodable == [decodable |-> FALSE, len |-> 10, width |-> 0, height |-> 0]
Images ==
    {Undecodable} \cup
    [decodable : {TRUE}, len : InputLens, width : StartDims, height : StartDims]
\* Request payloads: the image field is valid base64 of the bytes, or not
\* base64 at all.
Payloads ==
    {[b64 |-> FALSE, image |-> Undecodable]} \cup [b64 : {TRUE}, image : Images]

\* What the JPEG encoder can give back at one iteration: a byte length, or
\* an error (-1).
EncodeError == 0 - 1
EncOutcomes == {EncodeError, MaxSizeBytes, MaxSizeBytes + 1, 2 * MaxSizeBytes}

GoodItem == [name |-> JStr("A"), price |-> JStr("100")]
GoodObj ==
    [brand |-> JStr("X"), store |-> JStr("Y"), date |-> JStr("2024-01-01"),
     items |-> JArr(<<GoodItem>>), total |-> JStr("100"), confidence |-> JNum(9)]
ConfValues == {0 - 5, 0, 10, 15}
WrongType(f) == IF f = "confidence" THEN JStr("0.9") ELSE JNull
Objects ==
    {GoodObj}
    \cup {Without(GoodObj, f) : f \in ReceiptFields}
    \cup {With(GoodObj, f, WrongType(f)) : f \in ReceiptFields}
    \cup {With(GoodObj, "confidence", JNum(v)) : v \in ConfValues}
    \cup {With(GoodObj, "brand", JStr("Z")),
          With(GoodObj, "note", JStr("extra")),
          With(GoodObj, "items", JArr(<<>>)),
          With(GoodObj, "items", JArr(<<GoodItem, Without(GoodItem, "price")>>))}
NoText == [kind |-> "invalid", obj |-> <<>>, arr |-> <<>>]
ObjText(o) == [kind |-> "object", obj |-> o, arr |-> <<>>]
ArrText(a) == [kind |-> "array", obj |-> <<>>, arr |-> a]
GoodArr == [i \in 1..Len(FieldOrder) |-> GoodObj[FieldOrder[i]]]
Texts ==
    {NoText, [kind |-> "scalar", obj |-> <<>>, arr |-> <<>>],
     ArrText(GoodArr), ArrText(SubSeq(GoodArr, 1, Len(GoodArr) - 1))}
    \cup {ObjText(o) : o \in Objects}
\* The remote's answer to one invoke_model: a transport failure, a body that
\* is not JSON, an envelope without content[0].text, or an envelope with text.
TransportFailure == [transport_ok |-> FALSE, body_json |-> FALSE, has_text |-> FALSE, text |-> NoText]
Replies ==
    {TransportFailure,
     [transport_ok |-> TRUE, body_json |-> FALSE, has_text |-> FALSE, text |-> NoText],
     [transport_ok |-> TRUE, body_json |-> TRUE, has_text |-> FALSE, text |-> NoText]}
    \cup [transport_ok : {TRUE}, body_json : {TRUE}, has_text : {TRUE}, text : Texts]

\* The inputs of the concurrent runs.
ConcPayloads ==
    {[b64 |-> TRUE,
      image |-> [decodable |-> TRUE, len |-> MaxSizeBytes + 1, width |-> d, height |-> d]]
        : d \in {FloorPx, FloorPx + 1}}
ConcReplies ==
    {TransportFailure,
     [transport_ok |-> TRUE, body_json |-> TRUE, has_text |-> TRUE, text |-> ObjText(GoodObj)],
     [transport_ok |-> TRUE, body_json |-> TRUE, has_text |-> TRUE,
      text |-> ObjText(With(GoodObj, "brand", JStr("Z")))],
     [transport_ok |-> TRUE, body_json |-> TRUE, has_text |-> TRUE,
      text |-> ObjText(Without(GoodObj, "confidence"))]}

\* ------------------------------------------------------------------- state
VARIABLES
    payload,       \* the HTTP request body of each call
    reply,         \* the remote's answer to the call's invoke_model
    hpc,           \* analyze_receipt: "Idle", "Received", "Analyzing", "Responded", "Panicked"
    http,          \* the HTTP response: status 0 (none yet), 200 or 500, and the body
    stage,         \* analyze: "NotStarted", "Load", "Loop", "Requesting",
                   \*          "AwaitingReply", "Decoding", "Done", "Failed"
    image_data,    \* analyze's image argument
    width, height, current_size,   \* resize_image's locals
    attempts,      \* resize_image: every (width, height) handed to image.resize
                   \* (the box the aspect-preserving resize fits the image into)
                   \* with the encoder's outcome, in order
    resized,       \* resize_image's return value
    request,       \* the bedrock request of the call
    invocations,   \* how many times the call sent invoke_model
    response,      \* the body the call received
    result         \* analyze's return value

vars == <<payload, reply, hpc, http, stage, image_data, width, height,
          current_size, attempts, resized, request, invocations, response, result>>

NoResult == [status |-> "pending", receipt |-> <<>>, err |-> ""]
NoResized == [status |-> "pending", len |-> 0, err |-> ""]
NoRequest == [sent |-> FALSE, data_len |-> 0, media_type |-> ""]
NoHttp == [status |-> 0, result |-> <<>>]

InitCommon ==
    /\ http = [c \in Calls |-> NoHttp]
    /\ stage = [c \in Calls |-> "NotStarted"]
    /\ image_data = [c \in Calls |-> Undecodable]
    /\ width = [c \in Calls |-> 0]
    /\ height = [c \in Calls |-> 0]
    /\ current_size = [c \in Calls |-> 0]
    /\ attempts = [c \in Calls |-> <<>>]
    /\ resized = [c \in Calls |-> NoResized]
    /\ request = [c \in Calls |-> NoRequest]
    /\ invocations = [c \in Calls |-> 0]
    /\ response = [c \in Calls |-> TransportFailure]
    /\ result = [c \in Calls |-> NoResult]

\* One request arrives; the other calls stay idle.
Init ==
    /\ \E p \in Payloads, r \in Replies :
          /\ payload = [c \in Calls |-> p]
          /\ reply = [c \in Calls |-> r]
    /\ hpc = [c \in Calls |-> IF c = 1 THEN "Received" ELSE "Idle"]
    /\ InitCommon

\* Every call has a request in flight.
InitConc ==
    /\ payload \in [Calls -> ConcPayloads]
    /\ reply \in [Calls -> ConcReplies]
    /\ hpc = [c \in Calls |-> "Received"]
    /\ InitCommon

\* ----------------------------------------------------------------- actions
Failure(e) == [status |-> "err", receipt |-> <<>>, err |-> e]

\* analyze_receipt, line 31: the image field is base64-decoded and unwrapped.
HandlerDecode(c) ==
    /\ hpc[c] = "Received"
    /\ IF payload[c].b64
       THEN /\ hpc' = [hpc EXCEPT ![c] = "Analyzing"]
            /\ image_data' = [image_data EXCEPT ![c] = payload[c].image]
            /\ stage' = [stage EXCEPT ![c] = "Load"]
       ELSE /\ hpc' = [hpc EXCEPT ![c] = "Panicked"]
            /\ UNCHANGED <<image_data, stage>>
    /\ UNCHANGED <<payload, reply, http, width, height, current_size, attempts,
                   resized, request, invocations, response, result>>

\* resize_image, lines 27-30.
LoadImage(c) ==
    /\ stage[c] = "Load"
    /\ IF image_data[c].decodable
       THEN /\ current_size' = [current_size EXCEPT ![c] = image_data[c].len]
            /\ width' = [width EXCEPT ![c] = image_data[c].width]
            /\ height' = [height EXCEPT ![c] = image_data[c].height]
            /\ stage' = [stage EXCEPT ![c] = "Loop"]
            /\ UNCHANGED <<resized, result>>
       ELSE /\ resized' = [resized EXCEPT ![c] = [status |-> "err", len |-> 0, err |-> "decode_image"]]
            /\ result' = [result EXCEPT ![c] = Failure("decode_image")]
            /\ stage' = [stage EXCEPT ![c] = "Failed"]
            /\ UNCHANGED <<current_size, width, height>>
    /\ UNCHANGED <<payload, reply, hpc, http, image_data, attempts, request,
                   invocations, response>>

\* resize_image, lines 32-47: one pass of the loop body.
LoopIter(c) ==
    /\ stage[c] = "Loop"
    /\ LoopGuard(current_size[c], width[c], height[c])
    /\ LET w == ShrinkDim(width[c])
           h == ShrinkDim(height[c])
       IN  \E enc \in EncOutcomes :
             /\ width' = [width EXCEPT ![c] = w]
             /\ height' = [height EXCEPT ![c] = h]
             /\ attempts' = [attempts EXCEPT ![c] =
                               Append(@, [width |-> w, height |-> h, size |-> enc])]
             /\ IF enc = EncodeError
                THEN /\ resized' = [resized EXCEPT ![c] = [status |-> "err", len |-> 0, err |-> "encode"]]
                     /\ result' = [result EXCEPT ![c] = Failure("encode")]
                     /\ stage' = [stage EXCEPT ![c] = "Failed"]
                     /\ UNCHANGED current_size
                ELSE /\ current_size' = [current_size EXCEPT ![c] = enc]
                     /\ IF Fits(enc)
                        THEN /\ resized' = [resized EXCEPT ![c] = [status |-> "ok", len |-> enc, err |-> ""]]
                             /\ stage' = [stage EXCEPT ![c] = "Requesting"]
                        ELSE UNCHANGED <<resized, stage>>
                     /\ UNCHANGED result
    /\ UNCHANGED <<payload, reply, hpc, http, image_data, request, invocations, response>>

\* resize_image, lines 32 and 49: the loop condition is false.
LoopExit(c) ==
    /\ stage[c] = "Loop"
    /\ ~LoopGuard(current_size[c], width[c], height[c])
    /\ resized' = [resized EXCEPT ![c] = [status |-> "err", len |-> 0, err |-> "too_small"]]
    /\ result' = [result EXCEPT ![c] = Failure("too_small")]
    /\ stage' = [stage EXCEPT ![c] = "Failed"]
    /\ UNCHANGED <<payload, reply, hpc, http, image_data, width, height,
                   current_size, attempts, request, invocations, response>>

\* analyze, lines 54-131: the request is built around the resized image and sent.
SendRequest(c) ==
    /\ stage[c] = "Requesting"
    /\ request' = [request EXCEPT ![c] =
                     [sent |-> TRUE, data_len |-> Base64Len(resized[c].len),
                      media_type |-> "image/jpeg"]]
    /\ invocations' = [invocations EXCEPT ![c] = @ + 1]
    /\ stage' = [stage EXCEPT ![c] = "AwaitingReply"]
    /\ UNCHANGED <<payload, reply, hpc, http, image_data, width, height,
                   current_size, attempts, resized, response, result>>

\* The reply the awaiting call receives.
ReplyOf_Shared(c) == reply[1]
ReplyOf(c) == reply[c]

\* Where analyze goes when send() fails.
TransportFailureStage_Retry == "Requesting"
TransportFailureStage == "Failed"

\* analyze, lines 131-132: the await completes.
ReceiveReply(c) ==
    /\ stage[c] = "AwaitingReply"
    /\ IF ReplyOf(c).transport_ok
       THEN /\ response' = [response EXCEPT ![c] = ReplyOf(c)]
            /\ stage' = [stage EXCEPT ![c] = "Decoding"]
            /\ UNCHANGED result
       ELSE /\ stage' = [stage EXCEPT ![c] = TransportFailureStage]
            /\ result' = [result EXCEPT ![c] = Failure("transport")]
            /\ UNCHANGED response
    /\ UNCHANGED <<payload, reply, hpc, http, image_data, width, height,
                   current_size, attempts, resized, request, invocations>>

\* analyze, lines 134-142.
DecodeReply(c) ==
    /\ stage[c] = "Decoding"
    /\ result' = [result EXCEPT ![c] = DecodeOutcome(response[c])]
    /\ stage' = [stage EXCEPT ![c] =
                   IF DecodeOutcome(response[c]).status = "ok" THEN "Done" ELSE "Failed"]
    /\ UNCHANGED <<payload, reply, hpc, http, image_data, width, height,
                   current_size, attempts, resized, request, invocations, response>>

\* analyze_receipt, lines 32-35.
Respond(c) ==
    /\ hpc[c] = "Analyzing"
    /\ stage[c] \in {"Done", "Failed"}
    /\ http' = [http EXCEPT ![c] =
                  IF result[c].status = "ok"
                  THEN [status |-> 200, result |-> result[c].receipt]
                  ELSE [status |-> 500, result |-> <<>>]]
    /\ hpc' = [hpc EXCEPT ![c] = "Responded"]
    /\ UNCHANGED <<payload, reply, stage, image_data, width, height, current_size,
                   attempts, resized, request, invocations, response, result>>

CallStep(c) ==
    \/ HandlerDecode(c)
    \/ LoadImage(c)
    \/ LoopIter(c)
    \/ LoopExit(c)
    \/ SendRequest(c)
    \/ ReceiveReply(c)
    \/ DecodeReply(c)
    \/ Respond(c)

Next == \E c \in Calls : CallStep(c)

Spec == Init /\ [][Next]_vars

\* Each call is a task the runtime keeps polling until it completes.
FairSpec == Spec /\ \A c \in Calls : WF_vars(CallStep(c))

SpecConc == InitConc /\ [][Next]_vars

\* ------------------------------------------------------------------ claims
AttemptIdx(c) == 1..Len(attempts[c])
ResizeReturned(c) == resized[c].status # "pending"
\* The dimensions an attempt was derived from: the previous attempt's, or the
\* decoded image's for the first.
PrevDims(c, k) ==
    IF k = 1 THEN [width |-> image_data[c].width, height |-> image_data[c].height]
    ELSE [width |-> attempts[c][k - 1].width, height |-> attempts[c][k - 1].height]
RECURSIVE Pow(_, _)
Pow(b, k) == IF k = 0 THEN 1 ELSE b * Pow(b, k - 1)
\* analyze ran its decoding step on a body it received.
Decoded(c) == stage[c] \in {"Done", "Failed"} /\ response[c].transport_ok
DecodeFailed(c) ==
    /\ stage[c] = "Failed"
    /\ result[c].status = "err"
    /\ result[c].receipt = <<>>

\* C1: for every decodable input image whose byte length is at or under the
\* budget, resize_image returns successfully with bytes at or under the
\* budget.  The loop is never entered for such an input and line 49 reports
\* failure.
C1_FittingInputSucceeds ==
    \A c \in Calls :
        (/\ image_data[c].decodable
         /\ image_data[c].len <= MaxSizeBytes
         /\ ResizeReturned(c))
        => (resized[c].status = "ok" /\ resized[c].len <= MaxSizeBytes)

\* C2: whenever resize_image returns successfully, the returned bytes are the
\* output of the most recent re-encode, their length is within the budget,
\* every earlier encode was over the budget, and an encode that fits is
\* always the last one (the loop returns at the first fit).
C2_SuccessIsFirstFit ==
    \A c \in Calls :
        /\ resized[c].status = "ok" =>
              /\ attempts[c] # <<>>
              /\ resized[c].len = attempts[c][Len(attempts[c])].size
              /\ resized[c].len = current_size[c]
              /\ resized[c].len <= MaxSizeBytes
        /\ \A i \in AttemptIdx(c) :
              (attempts[c][i].size # EncodeError /\ attempts[c][i].size <= MaxSizeBytes)
              => (i = Len(attempts[c]) /\ resized[c].status = "ok")
        /\ \A i \in AttemptIdx(c) :
              i < Len(attempts[c]) => attempts[c][i].size > MaxSizeBytes

C2_Witness ==
    \E c \in Calls :
        /\ resized[c].status = "ok"
        /\ Len(attempts[c]) >= 2
        /\ attempts[c][1].size > MaxSizeBytes

\* resize_image returned without any encode within the budget (and without
\* an encoder error): it returned the failure of line 49.
NeverFitEndsTooSmall(c) ==
    (/\ ResizeReturned(c)
     /\ image_data[c].decodable
     /\ \A i \in AttemptIdx(c) : attempts[c][i].size > MaxSizeBytes)
    => /\ resized[c].status = "err"
       /\ resized[c].err = "too_small"
       /\ (image_data[c].len > MaxSizeBytes
           => (width[c] <= FloorPx \/ height[c] <= FloorPx))

\* C3: resize_image always terminates: every iteration strictly decreases
\* both dimensions, the loop is eventually left, and when no encode ever fit
\* (and none failed) the call ends in the failure of line 49, with a
\* dimension at or under the floor if the input was over the budget.
C3_ResizeTerminates ==
    /\ [][\A c \in Calls :
            /\ Len(attempts'[c]) > Len(attempts[c])
               => (width'[c] < width[c] /\ height'[c] < height[c])
            /\ NeverFitEndsTooSmall(c)']_vars
    /\ \A c \in Calls : (stage[c] = "Loop") ~> (stage[c] # "Loop")

C3_Witness ==
    \E c \in Calls :
        /\ resized[c].err = "too_small"
        /\ Len(attempts[c]) >= 3
        /\ width[c] <= FloorPx

\* C4 (as claimed): no image is ever rendered, encoded or returned with
\* width <= 100 or height <= 100.
C4_NeverRenderedAtFloor ==
    \A c \in Calls : \A i \in AttemptIdx(c) :
        attempts[c][i].width > FloorPx /\ attempts[c][i].height > FloorPx

\* The smallest dimension the loop can request: trunc(0.9 * 101).
MinRendered == (9 * (FloorPx + 1)) \div 10

\* C4 (amended): the floor is checked on the current dimensions before the
\* 0.9 multiply: every attempt was derived from dimensions that are both
\* above 100, so the dimensions handed to the resize are both at or above
\* trunc(0.9 * 101) = 90 and may be at or under 100; when the loop stops on
\* an over-budget size a current dimension is at or under 100 and nothing
\* was rendered after it.
C4_FloorCheckedBeforeMultiply ==
    \A c \in Calls :
        /\ \A i \in AttemptIdx(c) :
              /\ PrevDims(c, i).width > FloorPx
              /\ PrevDims(c, i).height > FloorPx
              /\ attempts[c][i].width >= MinRendered
              /\ attempts[c][i].height >= MinRendered
        /\ (resized[c].err = "too_small" /\ current_size[c] > MaxSizeBytes)
              => /\ (width[c] <= FloorPx \/ height[c] <= FloorPx)
                 /\ (attempts[c] # <<>> =>
                       /\ attempts[c][Len(attempts[c])].width = width[c]
                       /\ attempts[c][Len(attempts[c])].height = height[c])

C4_Witness ==
    \E c \in Calls :
        /\ resized[c].status = "ok"
        /\ attempts[c][Len(attempts[c])].width <= FloorPx
        /\ attempts[c][Len(attempts[c])].height = MinRendered

\* C5: shrink is compounding: the dimensions of attempt k are those of
\* attempt k-1 (the decoded image's for k = 1) times 0.9, truncated; they
\* stay within k of floor(W * 0.9^k), and the loop's current dimensions are
\* those of the last attempt.
C5_CompoundingShrink ==
    \A c \in Calls : \A k \in AttemptIdx(c) :
        /\ attempts[c][k].width = (9 * PrevDims(c, k).width) \div 10
        /\ attempts[c][k].height = (9 * PrevDims(c, k).height) \div 10
        /\ LET idealW == (image_data[c].width * Pow(9, k)) \div Pow(10, k)
               idealH == (image_data[c].height * Pow(9, k)) \div Pow(10, k)
           IN  /\ attempts[c][k].width \in (idealW - k)..idealW
               /\ attempts[c][k].height \in (idealH - k)..idealH
        /\ k = Len(attempts[c]) =>
              (width[c] = attempts[c][k].width /\ height[c] = attempts[c][k].height)

C5_Witness ==
    \E c \in Calls :
        /\ Len(attempts[c]) >= 3
        /\ attempts[c][3].width < attempts[c][2].width
        /\ attempts[c][2].width < attempts[c][1].width
        /\ attempts[c][3].width # (9 * image_data[c].width) \div 10

\* The stage of the extraction pipeline a call is in; resize_image's own
\* positions are all PreparingImage.
StageName(s) == IF s \in {"Load", "Loop"} THEN "PreparingImage" ELSE s
StageTransitions ==
    {<<"NotStarted", "PreparingImage">>,
     <<"PreparingImage", "Requesting">>,
     <<"Requesting", "AwaitingReply">>,
     <<"AwaitingReply", "Decoding">>,
     <<"Decoding", "Done">>,
     <<"PreparingImage", "Failed">>,
     <<"AwaitingReply", "Failed">>,
     <<"Decoding", "Failed">>}

\* C6: every analyze call moves through PreparingImage, Requesting,
\* AwaitingReply, Decoding, Done in that order, never back; a failure moves
\* straight to Failed, which like Done is terminal; the remote is invoked at
\* most once, only from Requesting after resize_image succeeded, and never
\* after a failure.
C6_LinearStages ==
    [][\A c \in Calls :
         /\ StageName(stage'[c]) # StageName(stage[c])
            => <<StageName(stage[c]), StageName(stage'[c])>> \in StageTransitions
         /\ stage[c] \in {"Done", "Failed"}
            => (stage'[c] = stage[c] /\ result'[c] = result[c]
                /\ invocations'[c] = invocations[c])
         /\ invocations'[c] # invocations[c]
            => /\ invocations[c] = 0
               /\ invocations'[c] = 1
               /\ stage[c] = "Requesting"
               /\ resized[c].status = "ok"]_vars

C6_Witness ==
    \E c \in Calls :
        /\ stage[c] = "Failed"
        /\ result[c].err = "transport"
        /\ invocations[c] = 1
        /\ hpc[c] = "Responded"

\* C7: analyze fails and returns no Receipt when the envelope has no
\* content[0].text string, when the text is not JSON, when the JSON lacks
\* confidence and when it lacks items; a returned Receipt carries all six
\* fields, each decoded from the reply.
C7_DecodeAllOrNothing ==
    \A c \in Calls :
        Decoded(c) =>
            LET b == response[c]
                t == b.text
            IN  /\ (~b.body_json \/ ~b.has_text) => DecodeFailed(c)
                /\ (b.has_text /\ t.kind = "invalid") => DecodeFailed(c)
                /\ (b.has_text /\ t.kind = "object" /\ "confidence" \notin DOMAIN t.obj)
                      => DecodeFailed(c)
                /\ (b.has_text /\ t.kind = "object" /\ "items" \notin DOMAIN t.obj)
                      => DecodeFailed(c)
                /\ result[c].status = "ok" =>
                      /\ stage[c] = "Done"
                      /\ b.body_json /\ b.has_text
                      /\ Len(result[c].receipt) = 1
                      /\ DOMAIN result[c].receipt[1] = ReceiptFields
                      /\ t.kind = "object" => ReceiptFields \subseteq DOMAIN t.obj
                      /\ t.kind = "array" => Len(t.arr) >= Cardinality(ReceiptFields)
                      /\ t.kind \in {"object", "array"}
                /\ result[c].status # "ok" => result[c].receipt = <<>>

C7_Witness ==
    \E c \in Calls :
        /\ Decoded(c)
        /\ response[c].has_text
        /\ response[c].text.kind = "object"
        /\ DOMAIN response[c].text.obj = ReceiptFields \ {"confidence"}
        /\ DecodeFailed(c)
        /\ http[c].status = 500

\* C8 (as claimed): a returned Receipt has its confidence within [0.0, 1.0].
C8_ConfidenceInRange ==
    \A c \in Calls :
        result[c].status = "ok"
        => (result[c].receipt[1].confidence.n >= 0
            /\ result[c].receipt[1].confidence.n <= 10)

\* C8 (amended): a returned Receipt has a confidence, which is the number the
\* reply carried, passed through without a range check: a reply that is
\* well-formed but for a confidence outside [0.0, 1.0] yields a Receipt with
\* that confidence; only an absent or non-numeric confidence fails decoding.
C8_ConfidencePassedThrough ==
    \A c \in Calls :
        (Decoded(c) /\ response[c].has_text /\ response[c].text.kind = "object") =>
            LET o == response[c].text.obj
            IN  /\ result[c].status = "ok" =>
                      /\ "confidence" \in DOMAIN o
                      /\ o.confidence.t = "number"
                      /\ result[c].receipt[1].confidence.n = o.confidence.n
                /\ \A v \in ConfValues :
                      o = With(GoodObj, "confidence", JNum(v))
                      => (result[c].status = "ok"
                          /\ result[c].receipt[1].confidence.n = v)
                /\ ("confidence" \notin DOMAIN o \/ o["confidence"].t # "number")
                      => DecodeFailed(c)

C8_Witness ==
    \E c \in Calls :
        /\ stage[c] = "Done"
        /\ result[c].status = "ok"
        /\ result[c].receipt[1].confidence.n > 10
        /\ http[c].status = 200

\* C9: every request the route accepted is answered, with {"result": Receipt}
\* when the pipeline succeeded and with the internal-server-error status on
\* any failure, an undecodable request image included.
C9_EveryRequestAnswered ==
    \A c \in Calls :
        hpc[c] \in {"Responded", "Panicked"} =>
            /\ http[c].status \in {200, 500}
            /\ http[c].status = 200 <=> result[c].status = "ok"
            /\ http[c].status = 200 => http[c].result = result[c].receipt

\* Everything a call owns.
Local(c) ==
    <<hpc[c], http[c], stage[c], image_data[c], width[c], height[c],
      current_size[c], attempts[c], resized[c], request[c], invocations[c],
      response[c], result[c]>>
Finished(c) == hpc[c] = "Responded"

\* C10: concurrent analyze calls are independent: a step of one call leaves
\* every other call's image, locals, request, response and result untouched;
\* each call works on its own image, sends its own resized image, decodes
\* the reply to its own request; and calls with equal image, encoder
\* outcomes and reply end with equal outcomes.
C10_CallsIndependent ==
    /\ [][\A c, d \in Calls :
            (c # d /\ Local(c)' # Local(c)) => Local(d)' = Local(d)]_vars
    /\ [](\A c \in Calls :
            /\ stage[c] # "NotStarted" => image_data[c] = payload[c].image
            /\ request[c].sent => request[c].data_len = Base64Len(resized[c].len)
            /\ response[c].transport_ok => response[c] = reply[c]
            /\ result[c].err = "transport" => ~reply[c].transport_ok
            /\ Decoded(c) => result[c] = DecodeOutcome(reply[c]))
    /\ [](\A c, d \in Calls :
            (/\ Finished(c) /\ Finished(d)
             /\ payload[c] = payload[d]
             /\ attempts[c] = attempts[d]
             /\ reply[c] = reply[d])
            => (result[c] = result[d] /\ http[c] = http[d]))

C10_Witness ==
    \E c, d \in Calls :
        /\ c # d
        /\ Finished(c) /\ Finished(d)
        /\ payload[c] = payload[d]
        /\ attempts[c] = attempts[d]
        /\ reply[c] # reply[d]
        /\ result[c].status = "ok"
        /\ result[d].status = "ok"
        /\ result[c] # result[d]

====
